---- MODULE Spec2Model ----
(***************************************************************************)
(* Model of the client-side rendering engine of node-chatserver:           *)
(*   - ElementManager (src/public/js/chat.js), the keyed reconciler;       *)
(*   - EventSystem (src/public/js/webSocketClient.js), the namespaced      *)
(*     publish/subscribe registry;                                         *)
(*   - Template (src/public/js/chat.js), the data-bound component.         *)
(* Each engine has its own specification (SpecEM, SpecES, SpecT) over the  *)
(* shared variable tuple; the variables of the other engines stay          *)
(* unchanged.                                                              *)
(***************************************************************************)
EXTENDS Integers, Sequences, FiniteSets, TLC

(***************************************************************************)
(* Bounds and input domains                                                *)
(***************************************************************************)
\* longest snapshot (array / Map / object) handed to render
MaxLen == 2
\* most handlers registered in an EventSystem at one time
MaxHandlers == 2
\* number of template clones the manager may create in one behaviour
MaxClones == 2

\* reconciliation keys and bound values used by the snapshots
Keys == {"u1", "u2"}
Vals == {"A", "B"}
\* names the primaryKey option is drawn from ("id" is the default)
PrimaryKeys == {"id", "uid"}

\* the callbacks handed to on() and one(): those in Throwing throw when called
Handlers == {"h1", "h2", "h3"}
Throwing == {"h3"}

\* JavaScript's undefined / null, and "no element" from Map.get
Undefined == "undefined"
Null == "null"

(***************************************************************************)
(* Snapshots.  An entry is an object {id?, uid?, name}; a missing field is *)
(* Undefined.  A snapshot is a tagged value: items of an array carry only  *)
(* the entry (k is the index name), items of a Map / object carry the key. *)
(* Callers of a manager configured with primary key pk build array entries *)
(* that carry their key in field pk, or carry no key at all (one such      *)
(* entry is enough: an entry without a key is never rendered).             *)
(***************************************************************************)
AllEntries == [id : Keys \cup {Undefined}, uid : Keys \cup {Undefined}, name : Vals]
Keyless == [id |-> Undefined, uid |-> Undefined, name |-> "A"]
Entries(pk) ==
  {e \in AllEntries : e[pk] # Undefined /\ \A f \in PrimaryKeys \ {pk} : e[f] = Undefined}
    \cup {Keyless}
PlainEntries == {e \in AllEntries : e.id = Undefined /\ e.uid = Undefined}

SeqsUpTo(S, n) == UNION {[1..m -> S] : m \in 0..n}

ArrayOf(es) == [type |-> "array",
                items |-> [i \in 1..Len(es) |-> [k |-> ToString(i - 1), e |-> es[i]]]]
Arrays(pk) == {ArrayOf(es) : es \in SeqsUpTo(Entries(pk), MaxLen)}

\* key/entry pairs with distinct keys, in iteration order
KeyedItems ==
  {s \in SeqsUpTo([k : Keys, e : PlainEntries], MaxLen) :
      \A i, j \in 1..Len(s) : i # j => s[i].k # s[j].k}
MapOf(s) == [type |-> "map", items |-> s]
ObjectOf(s) == [type |-> "object", items |-> s]
Maps == {MapOf(s) : s \in KeyedItems}
Objects == {ObjectOf(s) : s \in KeyedItems}
NullData == [type |-> "null", items |-> <<>>]
UndefinedData == [type |-> "undefined", items |-> <<>>]
Snapshots(pk) == Arrays(pk) \cup Maps \cup Objects \cup {NullData, UndefinedData}

(***************************************************************************)
(* State                                                                   *)
(***************************************************************************)
VARIABLES
  options,      \* ElementManager.options (primaryKey, removeDeadTemplates,
                \* maxElements)
  emHook,       \* which processRenderData the manager's class has
  elements,     \* ElementManager.elements: Map key -> element, in insertion order
  wrapper,      \* children of ElementManager.wrapper, in document order
  elementData,  \* per live element: the content its last render bound
  created,      \* number of clones made so far (element identities 1..created)
  last          \* history: the last operation called on the manager, the
                \* snapshot it was given and how it ended

emVars == <<options, emHook, elements, wrapper, elementData, created, last>>

VARIABLES
  events,       \* EventSystem.events: the namespace tree, per node path
  lastEmit      \* history: the last EventSystem call, the handlers it ran

esVars == <<events, lastEmit>>

\* Template: the JavaScript objects in play (theap), the registered child
\* elements (dom), the last call made (lastT) and the state of the
\* MutationObserver (observer)
VARIABLES theap, dom, lastT, observer
tVars == <<theap, dom, lastT, observer>>

\* Object.flatten / Object.unflatten: the object handed in and what came back
VARIABLES roundTrip
fVars == <<roundTrip>>

\* Message: the message and the last call made on it
VARIABLES message, lastM
mVars == <<message, lastM>>

\* WebSocketClient: the client's fields, the state of every WebSocket it
\* created (in creation order), the interval timers running, and the
\* history: the last call or event and the reconnect attempts so far
VARIABLES client, sockets, timers, lastW
wVars == <<client, sockets, timers, lastW>>

vars == <<emVars, esVars, tVars, fVars, mVars, wVars>>

(***************************************************************************)
(* Sequence helpers                                                        *)
(***************************************************************************)
Range(s) == {s[i] : i \in 1..Len(s)}

RECURSIVE Without(_, _)
\* the sequence s without its members that are in the set D
Without(s, D) ==
  IF s = <<>> THEN <<>>
  ELSE IF Head(s) \in D THEN Without(Tail(s), D)
       ELSE <<Head(s)>> \o Without(Tail(s), D)

IndexOf(s, x) == IF x \in Range(s) THEN CHOOSE i \in 1..Len(s) : s[i] = x ELSE 0

(***************************************************************************)
(* ElementManager                                                          *)
(***************************************************************************)
\* element identities are 1, 2, ...; NoElement is Map.get's undefined
NoElement == 0

\* Map.prototype.get on this.elements
ElementsGet(els, id) ==
  IF \E i \in 1..Len(els) : els[i].key = id
  THEN (els[CHOOSE i \in 1..Len(els) : els[i].key = id]).el
  ELSE NoElement

TrackedKeys(els) == {els[i].key : i \in 1..Len(els)}
TrackedEls(els) == {els[i].el : i \in 1..Len(els)}

\* getDataType without the instanceof Map test: a Map is typeof "object"
GetDataTypeNoMap(data) ==
  CASE data.type = "array" -> "array"
    [] data.type \in {"object", "null", "map"} -> "object"
    [] OTHER -> Null

GetDataType(data) ==
  CASE data.type = "map" -> "map"
    [] data.type = "array" -> "array"
    [] data.type \in {"object", "null"} -> "object"
    [] OTHER -> Null

\* JavaScript values getData can return: an entry object, null or undefined
NoEntry == [id |-> Undefined, uid |-> Undefined, name |-> Undefined]
JSObject(e) == [t |-> "object", v |-> e]
JSNull == [t |-> Null, v |-> NoEntry]
JSUndefined == [t |-> Undefined, v |-> NoEntry]

\* own property / Map lookup of key among keyed items
Lookup(items, key) ==
  LET el == SelectSeq(items, LAMBDA it : it.k = key)
  IN IF Len(el) > 0 THEN JSObject(el[1].e) ELSE JSUndefined

\* own enumerable properties of a value, as for..in and data[key] see them:
\* a Map, null and undefined have none; an array has its indices
OwnProperties(data) ==
  IF data.type \in {"object", "array"} THEN data.items ELSE <<>>

\* getData: [threw, val]; reading a property of null throws a TypeError
GetData(data, key) ==
  CASE GetDataType(data) = "array" ->
         LET el == SelectSeq(data.items, LAMBDA it : it.e.id = key)
         IN [threw |-> FALSE, val |-> IF Len(el) > 0 THEN JSObject(el[1].e) ELSE JSNull]
    [] GetDataType(data) = "map" ->
         [threw |-> FALSE, val |-> Lookup(data.items, key)]
    [] GetDataType(data) = "object" ->
         IF data.type = "null" THEN [threw |-> TRUE, val |-> JSUndefined]
         ELSE [threw |-> FALSE, val |-> Lookup(OwnProperties(data), key)]
    [] OTHER -> [threw |-> FALSE, val |-> JSNull]

\* !v for the values above
Falsy(v) == v.t \in {Undefined, Null}

\* Template.render(element, entry) on a clone of the template, which has one
\* named node, "name": its content becomes entry.name
TemplateRender(entry) == [html |-> entry.name]

\* renderElement on a manager state S = [elements, wrapper, elementData, created]
RenderElement(S, id, data) ==
  LET element == ElementsGet(S.elements, id) IN
  IF element = NoElement
  THEN LET new == S.created + 1 IN
       [elements |-> Append(S.elements, [key |-> id, el |-> new]),
        wrapper |-> Append(S.wrapper, new),
        elementData |-> [n \in DOMAIN S.elementData \cup {new} |->
                           IF n = new THEN TemplateRender(data) ELSE S.elementData[n]],
        created |-> new]
  ELSE [S EXCEPT !.elementData[element] = TemplateRender(data)]

RECURSIVE RenderArrayFrom(_, _, _, _)
\* the loop of renderArray from index i (1-based): a missing primary key returns
RenderArrayFrom(S, pk, items, i) ==
  IF i > Len(items) THEN S
  ELSE LET id == items[i].e[pk] IN
       IF id = Undefined THEN S
       ELSE RenderArrayFrom(RenderElement(S, id, items[i].e), pk, items, i + 1)

RenderArray(S, pk, data) == RenderArrayFrom(S, pk, data.items, 1)

RECURSIVE RenderKeyedFrom(_, _, _)
RenderKeyedFrom(S, items, i) ==
  IF i > Len(items) THEN S
  ELSE RenderKeyedFrom(RenderElement(S, items[i].k, items[i].e), items, i + 1)

RenderMap(S, data) == RenderKeyedFrom(S, data.items, 1)

\* for..in over null / undefined iterates nothing
RenderObject(S, data) == RenderKeyedFrom(S, OwnProperties(data), 1)

RECURSIVE RenderArrayCallsFrom(_, _, _)
\* the renderElement calls the loop of renderArray makes from index i on, as
\* (key, entry) pairs in call order; each call runs the element's render once
RenderArrayCallsFrom(pk, items, i) ==
  IF i > Len(items) THEN <<>>
  ELSE LET id == items[i].e[pk] IN
       IF id = Undefined THEN <<>>
       ELSE <<[k |-> id, e |-> items[i].e]>> \o RenderArrayCallsFrom(pk, items, i + 1)

\* the renderElement calls of renderMap / renderObject: one per item
RenderKeyedCalls(items) == [i \in 1..Len(items) |-> [k |-> items[i].k, e |-> items[i].e]]

\* the renderElement calls of render(data), in order
RenderCalls(pk, data) ==
  LET type == GetDataType(data) IN
  CASE type = "array" -> RenderArrayCallsFrom(pk, data.items, 1)
    [] type = "map" -> RenderKeyedCalls(data.items)
    [] OTHER -> RenderKeyedCalls(OwnProperties(data))

\* removeDeadElements without element.remove(): the key is deleted, the node stays
RemoveDeadElementsKeepNode(S, data) ==
  IF \E i \in 1..Len(S.elements) : GetData(data, S.elements[i].key).threw
  THEN [S |-> S, threw |-> TRUE]
  ELSE LET deadRecs == {S.elements[i] : i \in {j \in 1..Len(S.elements) :
                           Falsy(GetData(data, S.elements[j].key).val)}}
       IN [S |-> [S EXCEPT !.elements = Without(S.elements, deadRecs)],
           threw |-> FALSE]

\* removeDeadElements: [S, threw]
RemoveDeadElements(S, data) ==
  IF \E i \in 1..Len(S.elements) : GetData(data, S.elements[i].key).threw
  THEN [S |-> S, threw |-> TRUE]
  ELSE LET dead == {i \in 1..Len(S.elements) :
                       Falsy(GetData(data, S.elements[i].key).val)}
           deadEls == {S.elements[i].el : i \in dead}
           deadRecs == {S.elements[i] : i \in dead}
       IN [S |-> [elements |-> Without(S.elements, deadRecs),
                  wrapper |-> Without(S.wrapper, deadEls),
                  elementData |-> [n \in DOMAIN S.elementData \ deadEls |-> S.elementData[n]],
                  created |-> S.created],
           threw |-> FALSE]

\* processRenderData of the manager's class: the default returns data; the
\* override "rename" of a subclass returns a new snapshot whose entries are
\* copies with name "B"
EMHooks == {"default", "rename"}
EMProcessRenderData(hook, data) ==
  IF hook = "default" THEN data
  ELSE [data EXCEPT !.items = [i \in DOMAIN @ |-> [@[i] EXCEPT !.e.name = "B"]]]

\* render with the sweep run whatever options.removeDeadTemplates says
RenderAlwaysSweep(S, opts, data) ==
  LET type == GetDataType(data)
      R == CASE type = "array" -> RenderArray(S, opts.primaryKey, data)
             [] type = "map" -> RenderMap(S, data)
             [] OTHER -> RenderObject(S, data)
  IN RemoveDeadElements(R, data)

\* render: [S, threw].  this.cachedData and this.processedRenderData are
\* assigned first; no method of the manager reads them, they are not kept:
\* the switch and the sweep work on data itself.
Render(S, opts, data) ==
  LET type == GetDataType(data)
      R == CASE type = "array" -> RenderArray(S, opts.primaryKey, data)
             [] type = "map" -> RenderMap(S, data)
             [] OTHER -> RenderObject(S, data)
  IN IF opts.removeDeadTemplates THEN RemoveDeadElements(R, data)
     ELSE [S |-> R, threw |-> FALSE]

\* the object {id: object} renderSingle builds
SingleObject(id, object) == [type |-> "object", items |-> <<[k |-> id, e |-> object]>>]

\* reconciliation keys a snapshot carries under primary key pk
SnapshotKeys(data, pk) ==
  IF data.type = "array"
  THEN {data.items[i].e[pk] : i \in 1..Len(data.items)} \ {Undefined}
  ELSE {data.items[i].k : i \in 1..Len(data.items)}

\* key of item i of a snapshot under primary key pk (Undefined when missing)
ItemKey(data, pk, i) ==
  IF data.type = "array" THEN data.items[i].e[pk] ELSE data.items[i].k

\* the value the snapshot gives key k: that of its last entry carrying k
SnapshotVal(data, pk, k) ==
  LET idx == {i \in 1..Len(data.items) : ItemKey(data, pk, i) = k} IN
  IF idx = {} THEN Undefined
  ELSE data.items[CHOOSE i \in idx : \A j \in idx : j <= i].e.name

\* the (key, entry) pairs of a snapshot, in its iteration order
KeyedEntries(pk, data) ==
  LET items == IF data.type \in {"null", "undefined"} THEN <<>> ELSE data.items
      RECURSIVE From(_)
      From(i) == IF i > Len(items) THEN <<>>
                 ELSE IF ItemKey(data, pk, i) = Undefined THEN From(i + 1)
                 ELSE <<[k |-> ItemKey(data, pk, i), e |-> items[i].e]>> \o From(i + 1)
  IN From(1)

\* what the history keeps of a call: operation, snapshot shape, keys, values,
\* and whether its renderElement calls were the snapshot's (key, entry) pairs
Call(op, data, pk, threw, before, after) ==
  [op |-> op,
   type |-> data.type,
   keys |-> SnapshotKeys(data, pk),
   vals |-> [k \in Keys |-> SnapshotVal(data, pk, k)],
   allKeyed |-> \A i \in 1..Len(data.items) : ItemKey(data, pk, i) # Undefined,
   eachOnce |-> RenderCalls(pk, data) = KeyedEntries(pk, data),
   threw |-> threw,
   cloned |-> after.created - before.created,
   removed |-> Cardinality(TrackedEls(before.elements) \ TrackedEls(after.elements))]

Cur == [elements |-> elements, wrapper |-> wrapper,
        elementData |-> elementData, created |-> created]

\* a manager just constructed
EMNew ==
  /\ elements = <<>>
  /\ wrapper = <<>>
  /\ elementData = <<>>
  /\ created = 0
  /\ last = Call("new", UndefinedData, "id", FALSE, Cur, Cur)

\* new ElementManager(wrapper, template, {primaryKey, removeDeadTemplates})
EMInit ==
  /\ options \in [primaryKey : PrimaryKeys, removeDeadTemplates : BOOLEAN,
                  maxElements : {0}]
  /\ emHook = "default"
  /\ EMNew

\* new M(wrapper, template, {removeDeadTemplates, maxElements}) for a class M
\* extending ElementManager, with or without a processRenderData of its own
EMInitOptions ==
  /\ options \in [primaryKey : {"id"}, removeDeadTemplates : BOOLEAN,
                  maxElements : {0, 1}]
  /\ emHook \in EMHooks
  /\ EMNew

Apply(S) ==
  /\ elements' = S.elements
  /\ wrapper' = S.wrapper
  /\ elementData' = S.elementData
  /\ created' = S.created

DoRender(op, data) ==
  LET processedRenderData == EMProcessRenderData(emHook, data)
      R == Render(Cur, options, data)
  IN
  /\ R.S.created <= MaxClones
  /\ Apply(R.S)
  /\ last' = Call(op, data, options.primaryKey, R.threw, Cur, R.S)
  /\ UNCHANGED <<options, emHook, esVars, tVars, fVars, mVars, wVars>>

RenderAction == \E data \in Snapshots(options.primaryKey) : DoRender("render", data)

RenderSingleAction ==
  \E id \in Keys, object \in PlainEntries : DoRender("renderSingle", SingleObject(id, object))

\* removeElement(id) without wrapper.removeChild(element)
RemoveElementKeepNode(S, id) ==
  LET element == ElementsGet(S.elements, id) IN
  IF element # NoElement
  THEN [S EXCEPT !.elements = Without(S.elements, {[key |-> id, el |-> element]})]
  ELSE S

\* removeElement(id) on a manager state S
RemoveElement(S, id) ==
  LET element == ElementsGet(S.elements, id) IN
  IF element # NoElement
  THEN [elements |-> Without(S.elements, {[key |-> id, el |-> element]}),
        wrapper |-> Without(S.wrapper, {element}),
        elementData |-> [n \in DOMAIN S.elementData \ {element} |-> S.elementData[n]],
        created |-> S.created]
  ELSE S

RemoveElementAction ==
  \E id \in Keys :
    /\ Apply(RemoveElement(Cur, id))
    /\ last' = Call("removeElement", UndefinedData, options.primaryKey, FALSE,
                    Cur, RemoveElement(Cur, id))
    /\ UNCHANGED <<options, emHook, esVars, tVars, fVars, mVars, wVars>>

\* empty() on a manager state S
Empty(S) == [elements |-> <<>>, wrapper |-> <<>>, elementData |-> <<>>, created |-> S.created]

EmptyAction ==
  /\ Apply(Empty(Cur))
  /\ last' = Call("empty", UndefinedData, options.primaryKey, FALSE, Cur, Empty(Cur))
  /\ UNCHANGED <<options, emHook, esVars, tVars, fVars, mVars, wVars>>

RECURSIVE RenderCallsReentrant(_, _, _, _, _, _)
\* the renderElement calls calls[j..] of a render during which the element
\* render of call number at runs a handler that calls render(inner) on the
\* same manager: [S, threw]
RenderCallsReentrant(S, opts, calls, j, at, inner) ==
  IF j > Len(calls) THEN [S |-> S, threw |-> FALSE]
  ELSE LET S1 == RenderElement(S, calls[j].k, calls[j].e)
           N == IF j = at THEN Render(S1, opts, inner)
                ELSE [S |-> S1, threw |-> FALSE]
       IN IF N.threw THEN N
          ELSE RenderCallsReentrant(N.S, opts, calls, j + 1, at, inner)

\* render(data) with that handler: the loop, then the sweep against data
RenderReentrant(S, opts, data, at, inner) ==
  LET R == RenderCallsReentrant(S, opts, RenderCalls(opts.primaryKey, data),
                                1, at, inner)
  IN IF ~R.threw /\ opts.removeDeadTemplates THEN RemoveDeadElements(R.S, data)
     ELSE R

\* the snapshots a handler re-enters render with: objects of at most one entry
InnerSnapshots == {data \in Objects : Len(data.items) <= 1}

\* render(data) of an object of objects, re-entered with render(inner)
ReentrantRenderAction ==
  \E data \in Objects, inner \in InnerSnapshots :
    \E at \in 1..Len(data.items) :
      LET R == RenderReentrant(Cur, options, data, at, inner) IN
      /\ R.S.created <= MaxClones
      /\ Apply(R.S)
      /\ last' = Call("renderReentrant", data, options.primaryKey, R.threw, Cur, R.S)
      /\ UNCHANGED <<options, emHook, esVars, tVars, fVars, mVars, wVars>>

NextEMReentrant ==
  \/ RenderAction
  \/ RenderSingleAction
  \/ RemoveElementAction
  \/ EmptyAction
  \/ ReentrantRenderAction

(***************************************************************************)
(* EventSystem.  this.events is a tree of plain objects; the model keeps   *)
(* it per node path (<<>> is this.events itself).  A node records its own  *)
(* property names in insertion order, which is the order for..in visits    *)
(* them: child segments and, once on() created it, "_handlers".            *)
(***************************************************************************)
HandlersKey == "_handlers"
EmptyNode == [keys |-> <<>>, handlers |-> <<>>]

\* event.split('.') of the event names the model calls the EventSystem with:
\* "a", and its namespaces "a.b" and "a.c"
Paths == {<<"a">>, <<"a", "b">>, <<"a", "c">>}

Prefix(path, i) == SubSeq(path, 1, i)
IsPrefix(p, q) == Len(p) <= Len(q) /\ SubSeq(q, 1, Len(p)) = p

\* the registry without the subtree rooted at node path
DeleteNode(ev, path) ==
  LET parent == Prefix(path, Len(path) - 1)
      kept == {q \in DOMAIN ev : ~IsPrefix(path, q)}
  IN [q \in kept |->
        IF q = parent
        THEN [ev[q] EXCEPT !.keys = Without(ev[q].keys, {path[Len(path)]})]
        ELSE ev[q]]

RECURSIVE OnFrom(_, _, _, _)
\* the loop of on() from segment i
OnFrom(ev, path, callback, i) ==
  IF i > Len(path) THEN ev
  ELSE LET parent == Prefix(path, i - 1)
           node == Prefix(path, i)
           ev1 == IF node \in DOMAIN ev THEN ev
                  ELSE [q \in DOMAIN ev \cup {node} |->
                          IF q = node THEN EmptyNode
                          ELSE IF q = parent
                               THEN [ev[q] EXCEPT !.keys = Append(@, path[i])]
                               ELSE ev[q]]
       IN IF i = Len(path)
          THEN LET ev2 == IF HandlersKey \in Range(ev1[node].keys) THEN ev1
                          ELSE [ev1 EXCEPT ![node].keys = Append(@, HandlersKey),
                                           ![node].handlers = <<>>]
               IN [ev2 EXCEPT ![node].handlers = Append(@, callback)]
          ELSE OnFrom(ev1, path, callback, i + 1)

On(ev, path, callback) == OnFrom(ev, path, callback, 1)

\* off(): [ev, threw].  Descending through a missing node, or deleting the
\* _handlers of a missing node, is a TypeError.
Off(ev, path, removeAllChildHandlers) ==
  LET parent == Prefix(path, Len(path) - 1) IN
  IF parent \notin DOMAIN ev THEN [ev |-> ev, threw |-> TRUE]
  ELSE IF removeAllChildHandlers
  THEN [ev |-> IF path \in DOMAIN ev THEN DeleteNode(ev, path) ELSE ev, threw |-> FALSE]
  ELSE IF path \notin DOMAIN ev THEN [ev |-> ev, threw |-> TRUE]
  ELSE LET ev1 == [ev EXCEPT ![path].keys = Without(@, {HandlersKey}),
                             ![path].handlers = <<>>]
       IN [ev |-> IF Len(ev1[path].keys) = 0 THEN DeleteNode(ev1, path) ELSE ev1,
           threw |-> FALSE]

\* the names String.random(8) returns: one() appends one to the event name
RandomNames == {"r1", "r2", "r3"}
\* a node one() created: its last segment is a random name, its only handler
\* is the wrapper newCallback, kept in the model as the callback it wraps
IsOneShot(node) == Len(node) > 0 /\ node[Len(node)] \in RandomNames
\* the random names no node of the registry carries
FreshNames(ev) == {r \in RandomNames : \A q \in DOMAIN ev : r \notin Range(q)}
\* String.random(8): of 62^8 names, one the registry does not hold
FreshName(ev) == CHOOSE r \in FreshNames(ev) : TRUE

\* one(): on(event + "." + String.random(8), newCallback)
One(ev, path, callback) == On(ev, Append(path, FreshName(ev)), callback)

\* a callback that calls emit(event) for the event it was registered for
Reemitting == {"h4"}
\* nested emit calls the call stack holds before a call ends in a RangeError
StackDepth == 2

RECURSIVE EmitKeys(_, _, _)
RECURSIVE EmitOn(_, _)
RECURSIVE CallHandlers(_, _, _, _)
\* the inner loop of _emit: run handlers hs[x..] of node on the result
\* R = [ev, log, threw, depth].  A one-shot wrapper calls its callback and
\* then off(newEventName); a callback that throws ends the wrapper before
\* off.  A re-emitting callback runs emit(event) inside the call.
CallHandlers(node, hs, x, R) ==
  IF x > Len(hs) \/ R.threw THEN R
  ELSE LET called == [R EXCEPT !.log = Append(@, hs[x])]
           event == IF IsOneShot(node) THEN Prefix(node, Len(node) - 1) ELSE node
           C == IF hs[x] \in Throwing THEN [called EXCEPT !.threw = TRUE]
                ELSE IF hs[x] \in Reemitting
                THEN IF called.depth = StackDepth
                     THEN [called EXCEPT !.threw = TRUE]
                     ELSE [EmitOn([called EXCEPT !.depth = @ + 1], event)
                             EXCEPT !.depth = called.depth]
                ELSE called
           O == IF IsOneShot(node) /\ ~C.threw
                THEN Off(C.ev, node, TRUE)
                ELSE [ev |-> C.ev, threw |-> FALSE]
       IN CallHandlers(node, hs, x + 1,
                       [C EXCEPT !.ev = O.ev, !.threw = C.threw \/ O.threw])

\* _emit(obj): visit the properties ks of node path in order; a property
\* deleted before its turn is not visited
EmitKeys(path, ks, R) ==
  IF R.threw \/ ks = <<>> THEN R
  ELSE LET k == Head(ks)
           live == path \in DOMAIN R.ev /\ k \in Range(R.ev[path].keys)
           R1 == IF ~live THEN R
                 ELSE IF k = HandlersKey
                 THEN CallHandlers(path, R.ev[path].handlers, 1, R)
                 ELSE EmitKeys(Append(path, k), R.ev[Append(path, k)].keys, R)
       IN EmitKeys(path, Tail(ks), R1)

\* emit(event) on the registry of R, adding to R's log
EmitOn(R, path) ==
  IF Prefix(path, Len(path) - 1) \notin DOMAIN R.ev THEN [R EXCEPT !.threw = TRUE]
  ELSE IF path \notin DOMAIN R.ev THEN R
  ELSE EmitKeys(path, R.ev[path].keys, R)

\* emit(): [ev, log, threw]; log lists the callbacks called, in call order,
\* ev is the registry the emit leaves
Emit(ev, path) ==
  EmitOn([ev |-> ev, log |-> <<>>, threw |-> FALSE, depth |-> 0], path)

\* handlers registered in the nodes P of the registry
HandlerSum(ev, P) ==
  LET RECURSIVE Sum(_)
      Sum(Q) == IF Q = {} THEN 0
                ELSE LET q == CHOOSE q \in Q : TRUE
                     IN Len(ev[q].handlers) + Sum(Q \ {q})
  IN Sum(P)

\* handlers registered in the whole registry
HandlerTotal(ev) == HandlerSum(ev, DOMAIN ev)

\* getHandlersCount(event): this.events[event] is looked up with the whole
\* event name as one property name, so only a name without a dot finds a node;
\* countHandlers then sums the _handlers of that node and of all below it
GetHandlersCount(ev, path) ==
  IF Len(path) # 1 \/ path \notin DOMAIN ev THEN 0
  ELSE HandlerSum(ev, {q \in DOMAIN ev : IsPrefix(path, q)})

NoLog == [log |-> <<>>, threw |-> FALSE]
\* the last call made on the EventSystem: all is off()'s removeAllChildHandlers
ESCall(op, path, R) ==
  [op |-> op, path |-> path, all |-> TRUE, log |-> R.log, threw |-> R.threw]

ESInit ==
  /\ events = [q \in {<<>>} |-> EmptyNode]
  /\ lastEmit = ESCall("new", <<>>, NoLog)

OnAction ==
  \E path \in Paths, callback \in Handlers :
    /\ HandlerTotal(events) < MaxHandlers
    /\ events' = On(events, path, callback)
    /\ lastEmit' = ESCall("on", path, NoLog)
    /\ UNCHANGED <<emVars, tVars, fVars, mVars, wVars>>

OneAction ==
  \E path \in Paths, callback \in Handlers :
    /\ HandlerTotal(events) < MaxHandlers
    /\ FreshNames(events) # {}
    /\ events' = One(events, path, callback)
    /\ lastEmit' = ESCall("one", path, NoLog)
    /\ UNCHANGED <<emVars, tVars, fVars, mVars, wVars>>

OffAction ==
  \E path \in Paths, removeAllChildHandlers \in BOOLEAN :
    LET R == Off(events, path, removeAllChildHandlers) IN
    /\ events' = R.ev
    /\ lastEmit' = [ESCall("off", path, [log |-> <<>>, threw |-> R.threw])
                      EXCEPT !.all = removeAllChildHandlers]
    /\ UNCHANGED <<emVars, tVars, fVars, mVars, wVars>>

EmitAction ==
  \E path \in Paths :
    LET R == Emit(events, path) IN
    /\ events' = R.ev
    /\ lastEmit' = ESCall("emit", path, R)
    /\ UNCHANGED <<emVars, tVars, fVars, mVars, wVars>>

NextES ==
  \/ OnAction
  \/ OneAction
  \/ OffAction
  \/ EmitAction

\* one(event, cb) for a callback cb that calls emit(event)
OneReemitAction ==
  \E path \in Paths, callback \in Reemitting :
    /\ HandlerTotal(events) < MaxHandlers
    /\ FreshNames(events) # {}
    /\ events' = One(events, path, callback)
    /\ lastEmit' = ESCall("one", path, NoLog)
    /\ UNCHANGED <<emVars, tVars, fVars, mVars, wVars>>

NextESReemit ==
  \/ NextES
  \/ OneReemitAction

\* Template.on / one / off / emit of a Template component: events is the
\* registry of the component's this.eventSystem.  The static methods are
\* called as Template.on(this, ...), so `this` inside them is the class
\* Template, whose own properties are its static methods.  The listeners
\* Template.on adds to the element for native events are not kept.
TemplateStatics ==
  {"on", "one", "off", "emit", "findNamedElements", "find", "findAll",
   "findLast", "append", "prepend", "empty", "isVisible", "hide", "show",
   "display", "getStyle", "setHeight", "setWidth", "addClass", "hasClass",
   "removeClass", "replaceClass", "toggleClass", "getValue", "setValue",
   "enable", "disable", "render"}

\* Template.on(element, event, callback): [ev, threw]
TemplateOn(ev, path, callback) == [ev |-> On(ev, path, callback), threw |-> FALSE]

\* Template.one(element, event, callback): reading getHandlersCount of
\* this.eventSystem, undefined on the class, is a TypeError
TemplateOne(ev, path, callback) ==
  IF "eventSystem" \notin TemplateStatics THEN [ev |-> ev, threw |-> TRUE]
  ELSE [ev |-> One(ev, path, callback), threw |-> FALSE]

\* Template.off(element, event, removeAllChildHandlers)
TemplateOff(ev, path, removeAllChildHandlers) ==
  IF "eventSystem" \notin TemplateStatics THEN [ev |-> ev, threw |-> TRUE]
  ELSE Off(ev, path, removeAllChildHandlers)

TemplateOnAction ==
  \E path \in Paths, callback \in Handlers :
    LET R == TemplateOn(events, path, callback) IN
    /\ HandlerTotal(events) < MaxHandlers
    /\ events' = R.ev
    /\ lastEmit' = ESCall("on", path, [log |-> <<>>, threw |-> R.threw])
    /\ UNCHANGED <<emVars, tVars, fVars, mVars, wVars>>

TemplateOneAction ==
  \E path \in Paths, callback \in Handlers :
    LET R == TemplateOne(events, path, callback) IN
    /\ HandlerTotal(events) < MaxHandlers
    /\ FreshNames(events) # {}
    /\ events' = R.ev
    /\ lastEmit' = ESCall("one", path, [log |-> <<>>, threw |-> R.threw])
    /\ UNCHANGED <<emVars, tVars, fVars, mVars, wVars>>

TemplateOffAction ==
  \E path \in Paths, removeAllChildHandlers \in BOOLEAN :
    LET R == TemplateOff(events, path, removeAllChildHandlers) IN
    /\ events' = R.ev
    /\ lastEmit' = [ESCall("off", path, [log |-> <<>>, threw |-> R.threw])
                      EXCEPT !.all = removeAllChildHandlers]
    /\ UNCHANGED <<emVars, tVars, fVars, mVars, wVars>>

\* Template.emit(element, event, data): element.eventSystem.emit(event, data)
TemplateEmitAction ==
  \E path \in Paths :
    LET R == Emit(events, path) IN
    /\ events' = R.ev
    /\ lastEmit' = ESCall("emit", path, R)
    /\ UNCHANGED <<emVars, tVars, fVars, mVars, wVars>>

NextTemplateEvents ==
  \/ TemplateOnAction
  \/ TemplateOneAction
  \/ TemplateOffAction
  \/ TemplateEmitAction

(***************************************************************************)
(* Template.  A JavaScript value is [t, v]: t is its typeof, v its string   *)
(* form, or the address of the object for t = "object".  theap maps an     *)
(* address to the object there, a function from property names to values.  *)
(*   "data"   the object the caller hands to render,                       *)
(*   "nested" the object the caller keeps in data.user,                    *)
(*   "cached" this.cachedData, "render" this.renderData.                   *)
(***************************************************************************)
True == [t |-> "boolean", v |-> "true"]
False == [t |-> "boolean", v |-> "false"]
Str(s) == [t |-> "string", v |-> s]
Ref(a) == [t |-> "object", v |-> a]
\* the value the processRenderData hooks of the model write
Hooked == Str("hooked")

\* values rendered to the checkbox, and the names kept in data.user.name
CheckboxVals == {True, False, Str(""), Str("A")}
Names == {Str("A"), Str("B")}
\* values rendered to the radio input, whose value attribute is "red"
Colors == {Str("red"), Str("blue")}
\* a value the render of the child component throws on, and the values
\* rendered to the child component
Boom == Str("boom")
ChildVals == {Str("A"), Boom}
\* an element that has not been rendered by a call of its own render
NotRendered == [t |-> "undefined", v |-> ""]

\* if (value): false and "" are falsy, objects and other strings truthy
Truthy(x) == x \notin {False, Str("")}
\* the string an element's value or innerHTML takes from a value
ToStr(x) == IF x.t = "object" THEN "[object Object]" ELSE x.v

EmptyObject == [k \in {} |-> True]
\* o with o[k] = v
Put(o, k, v) == [x \in DOMAIN o \cup {k} |-> IF x = k THEN v ELSE o[x]]

\* the objects a caller renders: {done}, {user: {name}} or both, and the
\* one-property objects {color}, {nick}, {title}, {status}, {extra} and
\* {child}, the child's data a value or the nested object
DataObjects ==
  {[done |-> v] : v \in CheckboxVals}
    \cup {[user |-> Ref("nested")]}
    \cup {[done |-> v, user |-> Ref("nested")] : v \in CheckboxVals}
    \cup {[color |-> v] : v \in Colors}
    \cup {[nick |-> v] : v \in Names}
    \cup {[title |-> v] : v \in Names}
    \cup {[status |-> v] : v \in Names}
    \cup {[extra |-> v] : v \in Names}
    \cup {[child |-> v] : v \in ChildVals \cup {Ref("nested")}}

\* the values a caller assigns to property k of its data object
ValuesOf(k) ==
  CASE k = "done" -> CheckboxVals
    [] k = "color" -> Colors
    [] k = "child" -> ChildVals
    [] OTHER -> Names

RECURSIVE ObjectExtend(_, _, _, _)
\* Object.extend(target, src), the keys K of src still to copy: a key whose
\* values in target and src are both objects is merged into target's object,
\* any other key is assigned, an object by reference
ObjectExtend(h, target, src, K) ==
  IF K = {} THEN h
  ELSE LET key == CHOOSE k \in K : TRUE
           both == /\ key \in DOMAIN h[target]
                   /\ h[target][key].t = "object"
                   /\ h[src][key].t = "object"
           h1 == IF both
                 THEN ObjectExtend(h, h[target][key].v, h[src][key].v,
                                   DOMAIN h[h[src][key].v])
                 ELSE [h EXCEPT ![target] = Put(@, key, h[src][key])]
       IN ObjectExtend(h1, target, src, K \ {key})

\* Object.extend({}, data), the new object placed at address copy
ExtendEmpty(h, copy, data) ==
  ObjectExtend([h EXCEPT ![copy] = EmptyObject], copy, data, DOMAIN h[data])

\* cacheData: this.cachedData = Object.extend({}, data)
CacheData(h, data) == ExtendEmpty(h, "cached", data)

\* the processRenderData hooks of the model, on the object at address o:
\* the base class hook keeps the object, the others first derive a value
\* in place, at the top level or inside data.user; all store it as
\* this.renderData
Hooks == {"default", "setTop", "setNested"}
ProcessRenderData(h, o, hook) ==
  IF hook = "setTop" THEN [h EXCEPT ![o] = Put(@, "done", Hooked)]
  ELSE IF hook = "setNested" /\ "user" \in DOMAIN h[o]
  THEN [h EXCEPT ![h[o].user.v] = Put(@, "name", Hooked)]
  ELSE h

RECURSIVE Flatten(_, _)
\* Object.flatten(obj): the pairs <<dotted key, leaf value>>
Flatten(h, o) ==
  UNION {IF h[o][i].t = "object"
         THEN {<<i \o "." \o f[1], f[2]>> : f \in Flatten(h, h[o][i].v)}
         ELSE {<<i, h[o][i]>>} : i \in DOMAIN h[o]}

\* a registered child element; type is its type attribute ("" when absent),
\* value its value, checked its checked state, innerHTML its content and
\* rendered the argument of the last call of its own render, if it has one
Element(tagName, type, value) ==
  [tagName |-> tagName, type |-> type, value |-> value,
   checked |-> FALSE, innerHTML |-> "", rendered |-> NotRendered]

\* element.render: a nested Template (customElements.define gives it the
\* tag name template-element) exposes render, the other elements do not
HasRender(element) == element.tagName = "TEMPLATE-ELEMENT"
\* the child's render throws on the value Boom
RenderThrows(element, value) == HasRender(element) /\ value = Boom

\* the loop body for one element with the radio test reduced to
\* type === 'radio'
SetElementAnyRadio(element, value) ==
  IF HasRender(element) THEN [element EXCEPT !.rendered = value]
  ELSE IF element.tagName = "INPUT"
  THEN IF element.type # ""
       THEN IF element.type = "checkbox" /\ Truthy(value)
            THEN [element EXCEPT !.checked = TRUE]
            ELSE IF element.type = "radio"
            THEN [element EXCEPT !.checked = TRUE]
            ELSE [element EXCEPT !.value = ToStr(value)]
       ELSE element
  ELSE IF element.tagName = "SELECT"
  THEN [element EXCEPT !.value = ToStr(value)]
  ELSE [element EXCEPT !.innerHTML = ToStr(value)]

\* the body of the loop of the static Template.render for one element
SetElement(element, value) ==
  IF HasRender(element) THEN [element EXCEPT !.rendered = value]
  ELSE IF element.tagName = "INPUT"
  THEN IF element.type # ""
       THEN IF element.type = "checkbox" /\ Truthy(value)
            THEN [element EXCEPT !.checked = TRUE]
            ELSE IF element.type = "radio" /\ value = Str(element.value)
            THEN [element EXCEPT !.checked = TRUE]
            ELSE [element EXCEPT !.value = ToStr(value)]
       ELSE element
  ELSE IF element.tagName = "SELECT"
  THEN [element EXCEPT !.value = ToStr(value)]
  ELSE [element EXCEPT !.innerHTML = ToStr(value)]

\* the flattened keys of the model's data objects in the order for..in
\* visits them: the property a hook adds, "done", comes last
FlatOrder == <<"child", "child.name", "color", "nick", "title", "status",
               "extra", "user.name", "done">>
FlatPos(k) == CHOOSE i \in 1..Len(FlatOrder) : FlatOrder[i] = k
FlatKeys(flat) == {f[1] : f \in flat}
FlatValue(flat, k) == (CHOOSE f \in flat : f[1] = k)[2]

\* the static render without if(!element) continue: a key that names no
\* element reads a property of undefined
StaticRenderNoSkip(els, flat) ==
  LET throwers == {k \in FlatKeys(flat) :
                     k \notin DOMAIN els \/ RenderThrows(els[k], FlatValue(flat, k))}
      reached(k) == \A x \in throwers : FlatPos(k) < FlatPos(x)
  IN [elements |-> [k \in DOMAIN els |->
                      IF k \in FlatKeys(flat) /\ reached(k)
                      THEN SetElement(els[k], FlatValue(flat, k))
                      ELSE els[k]],
      threw |-> throwers # {}]

\* the static Template.render(element, data, true) on the registered
\* elements: [elements, threw].  Every flattened key that names an element
\* sets it, in the order of the keys; a render of a child that throws ends
\* the loop.
StaticRender(els, flat) ==
  LET throwers == {k \in FlatKeys(flat) \cap DOMAIN els :
                     RenderThrows(els[k], FlatValue(flat, k))}
      reached(k) == \A x \in throwers : FlatPos(k) < FlatPos(x)
  IN [elements |-> [k \in DOMAIN els |->
                      IF k \in FlatKeys(flat) /\ reached(k)
                      THEN SetElement(els[k], FlatValue(flat, k))
                      ELSE els[k]],
      threw |-> throwers # {}]

\* render(data) with the given hook: [h, elements, threw, observer].
\* observer.observe precedes the static render and observer.disconnect
\* follows it, outside any try: a throw leaves the observer observing.
TRender(h, els, hook) ==
  LET h1 == CacheData(h, "data")
      h2 == ProcessRenderData(ExtendEmpty(h1, "render", "data"), "render", hook)
      R == StaticRender(els, Flatten(h2, "render"))
  IN [h |-> h2, elements |-> R.elements, threw |-> R.threw,
      observer |-> IF R.threw THEN "observing" ELSE "disconnected"]

RECURSIVE DeepValue(_, _)
\* the object at o as a value: its leaves, and its nested objects as values
DeepValue(h, o) ==
  [leaf |-> {<<k, h[o][k]>> : k \in {x \in DOMAIN h[o] : h[o][x].t # "object"}},
   sub |-> {<<k, DeepValue(h, h[o][k].v)>> :
              k \in {x \in DOMAIN h[o] : h[o][x].t = "object"}}]

RECURSIVE Reach(_, _)
\* the objects nested in the object at o, at any depth
Reach(h, o) ==
  LET direct == {h[o][k].v : k \in {x \in DOMAIN h[o] : h[o][x].t = "object"}}
  IN direct \cup UNION {Reach(h, a) : a \in direct}

TCall(op, passed, rendered) ==
  [op |-> op, passed |-> passed, rendered |-> rendered, threw |-> FALSE]

\* the child elements found by name when the Template is attached
NamedElements ==
  [done |-> Element("INPUT", "checkbox", "on"),
   color |-> Element("INPUT", "radio", "red"),
   nick |-> Element("INPUT", "", ""),
   title |-> Element("INPUT", "text", ""),
   status |-> Element("SELECT", "", ""),
   child |-> Element("TEMPLATE-ELEMENT", "", "")]
    @@ ("user.name" :> Element("SPAN", "", ""))

\* a Template attached to the document; the constructor set cachedData and
\* renderData to {} and created the observer, which observes nothing
TInit ==
  /\ \E d \in DataObjects, n \in Names :
       theap = [data |-> d, nested |-> [name |-> n],
                cached |-> EmptyObject, render |-> EmptyObject]
  /\ dom = NamedElements
  /\ lastT = TCall("new", DeepValue(theap, "cached"), FALSE)
  /\ observer = "disconnected"

\* the specifications that do not exercise the Template construct none:
\* no object, no element, no call
TIdle ==
  /\ theap = EmptyObject
  /\ dom = EmptyObject
  /\ lastT = TCall("none", EmptyObject, FALSE)
  /\ observer = "disconnected"

TRenderAction ==
  \E hook \in Hooks :
    LET R == TRender(theap, dom, hook) IN
    /\ theap' = R.h
    /\ dom' = R.elements
    /\ lastT' = [TCall("render", DeepValue(theap, "data"), TRUE)
                   EXCEPT !.threw = R.threw]
    /\ observer' = R.observer
    /\ UNCHANGED <<emVars, esVars, fVars, mVars, wVars>>

\* the caller assigns a top-level property of its data object
SetDataAction ==
  \E k \in {x \in DOMAIN theap["data"] : theap["data"][x].t # "object"} :
    \E v \in ValuesOf(k) :
      /\ theap' = [theap EXCEPT !["data"] = Put(@, k, v)]
      /\ lastT' = [lastT EXCEPT !.op = "set"]
      /\ UNCHANGED <<dom, observer, emVars, esVars, fVars, mVars, wVars>>

\* the caller assigns a property of the object nested in its data object
SetNestedAction ==
  \E n \in Names :
    /\ \E k \in DOMAIN theap["data"] : theap["data"][k] = Ref("nested")
    /\ theap' = [theap EXCEPT !["nested"] = Put(@, "name", n)]
    /\ lastT' = [lastT EXCEPT !.op = "set"]
    /\ UNCHANGED <<dom, observer, emVars, esVars, fVars, mVars, wVars>>

NextT ==
  \/ TRenderAction
  \/ SetDataAction
  \/ SetNestedAction

(***************************************************************************)
(* Object.flatten and Object.unflatten.  The object x lives in a heap of   *)
(* its own: "x" is x, "x.a" and "x.0" the objects nested under its         *)
(* properties a and 0.  What unflatten builds is kept as a tree            *)
(* [leaf, sub, array]: leaf properties, nested trees, and whether the      *)
(* container is an array.                                                  *)
(***************************************************************************)
\* property names: a plain one and one that looks like a number
FNames == {"a", "0"}
\* !isNaN(Number(name))
NumericNames == {"0"}
\* null: Object.flatten tests obj[i] !== null and keeps it as a leaf
NullValue == [t |-> "null", v |-> "null"]
Zero == [t |-> "number", v |-> "0"]
\* leaves: a truthy one and the falsy "", 0, false, null
FLeaves == {Str("s"), Str(""), Zero, False, NullValue}

FAddr(k) == "x." \o k
\* objects whose properties are leaves, the empty object included
FNested == UNION {[S -> FLeaves] : S \in SUBSET FNames}
\* x itself: a property is a leaf or the object nested under it
FRoots ==
  UNION {{r \in [S -> FLeaves \cup {Ref(FAddr(k)) : k \in FNames}] :
            \A k \in S : r[k].t = "object" => r[k] = Ref(FAddr(k))} :
         S \in SUBSET FNames}
FHeap(r, n) == ("x" :> r) @@ [a \in {FAddr(k) : k \in FNames} |->
                                n[CHOOSE k \in FNames : FAddr(k) = a]]

\* key.split('.') for the keys Object.flatten makes of these names
FlatPaths == [1..1 -> FNames] \cup [1..2 -> FNames]
Join(p) == IF Len(p) = 1 THEN p[1] ELSE p[1] \o "." \o p[2]
Split(key) == CHOOSE p \in FlatPaths : Join(p) = key

\* for..in visits integer-like names first
NameRank(e) == IF e \in NumericNames THEN 1 ELSE 2
\* path p is visited before path q
VisitedBefore(p, q) ==
  \/ NameRank(p[1]) < NameRank(q[1])
  \/ /\ p[1] = q[1]
     /\ Len(p) = 2 /\ Len(q) = 2
     /\ NameRank(p[2]) < NameRank(q[2])

EmptyTree == [leaf |-> {}, sub |-> {}, array |-> FALSE]
\* r[e] is truthy: a nested container, or a leaf that is not falsy
TreeHas(r, e) ==
  \/ \E c \in r.sub : c[1] = e
  \/ \E l \in r.leaf : l[1] = e /\ l[2] \notin {Str(""), Zero, False, NullValue}

RECURSIVE Reduce(_, _, _, _)
\* keys.reduce(...) of unflatten from index j on container r:
\*   r[e] || (r[e] = isNaN(Number(keys[j + 1]))
\*                     ? (keys.length - 1 == j ? obj[i] : {}) : [])
Reduce(r, keys, j, value) ==
  LET e == keys[j]
      nextNumeric == j < Len(keys) /\ keys[j + 1] \in NumericNames
  IN IF j = Len(keys)
     THEN IF TreeHas(r, e) THEN r
          ELSE [r EXCEPT !.leaf = {l \in @ : l[1] # e} \cup {<<e, value>>}]
     ELSE LET child == IF \E c \in r.sub : c[1] = e
                       THEN (CHOOSE c \in r.sub : c[1] = e)[2]
                       ELSE [leaf |-> {}, sub |-> {}, array |-> nextNumeric]
          IN [r EXCEPT !.sub = {c \in @ : c[1] # e}
                                 \cup {<<e, Reduce(child, keys, j + 1, value)>>}]

RECURSIVE UnflattenFrom(_, _)
\* the loop of Object.unflatten over the pairs of obj still to visit
UnflattenFrom(result, flat) ==
  IF flat = {} THEN result
  ELSE LET f == CHOOSE x \in flat :
                  \A y \in flat \ {x} : VisitedBefore(Split(x[1]), Split(y[1]))
       IN UnflattenFrom(Reduce(result, Split(f[1]), 1, f[2]), flat \ {f})

Unflatten(flat) == UnflattenFrom(EmptyTree, flat)

RECURSIVE HasArray(_)
HasArray(tree) == tree.array \/ \E c \in tree.sub : HasArray(c[2])
RECURSIVE PlainValue(_)
\* a tree as the value DeepValue gives an object of the heap
PlainValue(tree) ==
  [leaf |-> tree.leaf, sub |-> {<<c[1], PlainValue(c[2])>> : c \in tree.sub}]
\* deep equality of what unflatten built with the object at o
DeepEqual(tree, h, o) == ~HasArray(tree) /\ PlainValue(tree) = DeepValue(h, o)

FInit ==
  \E r \in FRoots, n \in [FNames -> FNested] :
    /\ \A k \in FNames :
         (k \notin DOMAIN r \/ r[k].t # "object") => n[k] = EmptyObject
    /\ roundTrip = [h |-> FHeap(r, n), done |-> FALSE, back |-> EmptyTree]

\* the specifications that do not exercise flatten hand no object in
FIdle == roundTrip = [h |-> EmptyObject, done |-> FALSE, back |-> EmptyTree]

\* Object.unflatten(Object.flatten(x))
RoundTripAction ==
  /\ ~roundTrip.done
  /\ roundTrip' = [roundTrip EXCEPT !.done = TRUE,
                                    !.back = Unflatten(Flatten(roundTrip.h, "x"))]
  /\ UNCHANGED <<emVars, esVars, tVars, mVars, wVars>>

NextF ==
  \/ RoundTripAction

(***************************************************************************)
(* Message (src/unnamed/part_001).  route and data are kept as strings,     *)
(* status as the number of Message.status.                                 *)
(***************************************************************************)
MessageStatus == [error |-> 0, ok |-> 1, done |-> 2]
Statuses == {MessageStatus.error, MessageStatus.ok, MessageStatus.done}
Routes == {"", "/r"}
Datas == {"{}", "text"}
\* Date.now() at construction, and the timestamp a serialized message carries
Now == "t0"
Timestamps == {Now, "t1"}

\* an object holding some of the properties P, with values from V
Partial(P, V) == UNION {[S -> V] : S \in SUBSET P}
\* the options objects handed to the constructor: {} or {status: s}
MessageOptions == Partial({"status"}, Statuses)
\* the objects handed to deserialize
Serialized ==
  {a @@ b @@ c : a \in Partial({"status"}, Statuses),
                 b \in Partial({"route"}, Routes \ {""}),
                 c \in Partial({"timestamp"}, Timestamps \ {Now})}

\* options.status || Message.status.ok: 0 is falsy
StatusOr(opts) ==
  IF "status" \in DOMAIN opts /\ opts["status"] # 0 THEN opts["status"]
  ELSE MessageStatus.ok

\* new Message(options)
NewMessage(opts) ==
  [route |-> "", data |-> "{}", status |-> StatusOr(opts), timestamp |-> Now]

IsDone(m) == m.status = MessageStatus.done

\* fromObject(obj)
FromObject(m, obj) ==
  [route |-> IF "route" \in DOMAIN obj THEN obj["route"] ELSE m.route,
   data |-> m.data,
   status |-> IF "status" \in DOMAIN obj THEN obj["status"] ELSE m.status,
   timestamp |-> IF "timestamp" \in DOMAIN obj THEN obj["timestamp"] ELSE m.timestamp]

\* the last call made on the message; options are the constructor's
MCall(op) == [op |-> op, options |-> lastM.options]

MInit ==
  \E opts \in MessageOptions :
    /\ message = NewMessage(opts)
    /\ lastM = [op |-> "new", options |-> opts]

\* no message in the specifications that do not exercise it
MIdle ==
  /\ message = NewMessage(<<>>)
  /\ lastM = [op |-> "new", options |-> <<>>]

MOthers == UNCHANGED <<emVars, esVars, tVars, fVars, wVars>>

SetStatusAction ==
  \E status \in Statuses :
    /\ message' = [message EXCEPT !.status = status]
    /\ lastM' = MCall("setStatus")
    /\ MOthers

SetDoneAction ==
  /\ message' = [message EXCEPT !.status = MessageStatus.done]
  /\ lastM' = MCall("setDone")
  /\ MOthers

\* setError(text): the data is replaced only by a truthy text
SetErrorAction ==
  \E text \in {"", "text"} :
    /\ message' = [message EXCEPT !.status = MessageStatus.error,
                                  !.data = IF text # "" THEN text ELSE @]
    /\ lastM' = MCall("setError")
    /\ MOthers

SetOkAction ==
  /\ message' = [message EXCEPT !.status = MessageStatus.ok]
  /\ lastM' = MCall("setOk")
  /\ MOthers

SetRouteAction ==
  \E route \in Routes :
    /\ message' = [message EXCEPT !.route = route]
    /\ lastM' = MCall("setRoute")
    /\ MOthers

MessageSetDataAction ==
  \E data \in Datas :
    /\ message' = [message EXCEPT !.data = data]
    /\ lastM' = MCall("setData")
    /\ MOthers

DeserializeAction ==
  \E obj \in Serialized :
    /\ message' = FromObject(message, obj)
    /\ lastM' = MCall("deserialize")
    /\ MOthers

NextM ==
  \/ SetStatusAction
  \/ SetDoneAction
  \/ SetErrorAction
  \/ SetOkAction
  \/ SetRouteAction
  \/ MessageSetDataAction
  \/ DeserializeAction

(***************************************************************************)
(* WebSocketClient.  A socket is named by its creation number; 0 stands    *)
(* for null in client.ws and client.reconnectInterval.  A socket is        *)
(* "connecting", "open", "closing" (close() was called on it), "errored"   *)
(* (its error event was delivered, its close event is still to come) or    *)
(* "closed".  The listeners attachWebSocketHandlers adds stay on a socket  *)
(* after the client has replaced it.                                       *)
(***************************************************************************)
\* sockets the client creates in one behaviour
MaxSockets == 4
\* the largest options.maxReconnectAttempts
MaxAttempts == 1
\* interval timers that can run at once
MaxTimers == 2

\* W = [client, sockets, timers]
\* close(): this.ws.close() on a connecting or open socket starts its closing
Close(W) ==
  LET ws == W.client.ws IN
  [W EXCEPT !.sockets = IF ws # 0 /\ W.sockets[ws] \in {"connecting", "open"}
                        THEN [@ EXCEPT ![ws] = "closing"] ELSE @,
            !.client.ws = 0]

\* connect(): close(), then a new WebSocket with the four listeners
Connect(W) ==
  LET C == Close(W) IN
  [C EXCEPT !.sockets = Append(@, "connecting"),
            !.client.ws = Len(C.sockets) + 1]

\* setInterval returns an id no running timer has
NewTimer(W) == CHOOSE t \in 1..MaxTimers : t \notin W.timers

\* startAutoReconnect()
StartAutoReconnect(W) ==
  [W EXCEPT !.client.reconnectAttempts = 0,
            !.client.reconnectInterval = NewTimer(W),
            !.timers = @ \cup {NewTimer(W)}]

\* stopAutoReconnect(): clearInterval(null) clears nothing
StopAutoReconnect(W) ==
  [W EXCEPT !.timers = @ \ {W.client.reconnectInterval},
            !.client.reconnectInterval = 0]

\* reconnect()
Reconnect(W) ==
  IF W.client.maxReconnectAttempts = 0
     \/ W.client.reconnectAttempts < W.client.maxReconnectAttempts
  THEN Connect([W EXCEPT !.client.reconnectAttempts = @ + 1])
  ELSE StopAutoReconnect(W)

\* the 'open' listener
OpenHandler(W) == StopAutoReconnect(W)

\* the 'error' listener without the test reconnectInterval === null
ErrorHandlerNoTest(W, threw) ==
  IF ~threw /\ W.client.autoReconnect
  THEN StartAutoReconnect(W) ELSE W

\* the 'error' listener; threw: a handler of the client's 'error' event
\* threw out of self.emit
ErrorHandler(W, threw) ==
  IF ~threw /\ W.client.autoReconnect /\ W.client.reconnectInterval = 0
  THEN StartAutoReconnect(W) ELSE W

\* the 'close' listener
CloseHandler(W, wasClean, threw) ==
  IF ~threw /\ ~wasClean /\ W.client.autoReconnect /\ W.client.reconnectInterval = 0
  THEN StartAutoReconnect(W) ELSE W

CurW == [client |-> client, sockets |-> sockets, timers |-> timers]

\* the history: the call or event, the socket it came from and what was
\* current then, whether a timer was started, the connect() calls reconnect()
\* made since the last 'open' or call of the user, and whether reconnect()
\* has bailed since
WCall(event, socket, wasClean, W, attempts, bailed) ==
  [event |-> event, socket |-> socket, current |-> client.ws,
   wasClean |-> wasClean,
   started |-> ~(W.timers \subseteq timers),
   attempts |-> attempts, bailed |-> bailed]

ApplyW(W) ==
  /\ client' = W.client
  /\ sockets' = W.sockets
  /\ timers' = W.timers
  /\ UNCHANGED <<emVars, esVars, tVars, fVars, mVars>>

\* new WebSocketClient({autoReconnect, maxReconnectAttempts})
WNew ==
  /\ sockets = <<>>
  /\ timers = {}
  /\ lastW = [event |-> "new", socket |-> 0, current |-> 0, wasClean |-> TRUE,
              started |-> FALSE, attempts |-> 0, bailed |-> FALSE]

WInit ==
  /\ client \in [ws : {0}, reconnectInterval : {0}, reconnectAttempts : {0},
                 maxReconnectAttempts : 0..MaxAttempts, autoReconnect : BOOLEAN]
  /\ WNew

\* no client in the specifications that do not exercise it
WIdle ==
  /\ client = [ws |-> 0, reconnectInterval |-> 0, reconnectAttempts |-> 0,
               maxReconnectAttempts |-> 0, autoReconnect |-> TRUE]
  /\ WNew

\* the user calls connect()
ConnectAction ==
  /\ Len(sockets) < MaxSockets
  /\ ApplyW(Connect(CurW))
  /\ lastW' = WCall("connect", 0, TRUE, Connect(CurW), 0, FALSE)

\* the user calls close()
CloseAction ==
  /\ client.ws # 0
  /\ ApplyW(Close(CurW))
  /\ lastW' = WCall("userClose", 0, TRUE, Close(CurW), 0, FALSE)

\* socket s delivers 'open'
OpenEvent ==
  \E s \in DOMAIN sockets :
    /\ sockets[s] = "connecting"
    /\ LET W == OpenHandler([CurW EXCEPT !.sockets[s] = "open"]) IN
       /\ ApplyW(W)
       /\ lastW' = WCall("open", s, TRUE, W, 0, FALSE)

\* socket s delivers 'error': the connection failed or was lost, or close()
\* was called on it before it was established
ErrorEvent ==
  \E s \in DOMAIN sockets, threw \in BOOLEAN :
    /\ sockets[s] \in {"connecting", "open", "closing"}
    /\ LET W == ErrorHandler([CurW EXCEPT !.sockets[s] = "errored"], threw) IN
       /\ ApplyW(W)
       /\ lastW' = WCall("error", s, TRUE, W, lastW.attempts, lastW.bailed)

\* socket s delivers 'close'; after an error the close is not clean
CloseEvent ==
  \E s \in DOMAIN sockets, wasClean \in BOOLEAN, threw \in BOOLEAN :
    /\ sockets[s] \in {"open", "closing", "errored"}
    /\ sockets[s] = "errored" => ~wasClean
    /\ LET W == CloseHandler([CurW EXCEPT !.sockets[s] = "closed"], wasClean, threw) IN
       /\ ApplyW(W)
       /\ lastW' = WCall("close", s, wasClean, W, lastW.attempts, lastW.bailed)

\* a running interval timer fires: self.reconnect()
TickEvent ==
  \E t \in timers :
    LET W == Reconnect(CurW)
        connects == Len(W.sockets) > Len(sockets)
    IN /\ Len(W.sockets) <= MaxSockets
       /\ ApplyW(W)
       /\ lastW' = WCall("tick", 0, TRUE, W,
                         IF connects THEN lastW.attempts + 1 ELSE lastW.attempts,
                         lastW.bailed \/ ~connects)

NextW ==
  \/ ConnectAction
  \/ CloseAction
  \/ OpenEvent
  \/ ErrorEvent
  \/ CloseEvent
  \/ TickEvent

InitEM == EMInit /\ ESInit /\ TIdle /\ FIdle /\ MIdle /\ WIdle

NextEM ==
  \/ RenderAction
  \/ RenderSingleAction
  \/ RemoveElementAction
  \/ EmptyAction

SpecEM == InitEM /\ [][NextEM]_vars

\* the ElementManager of the specifications that do not exercise it
EMIdle ==
  /\ EMInit
  /\ options = [primaryKey |-> "id", removeDeadTemplates |-> TRUE, maxElements |-> 0]

InitES == ESInit /\ EMIdle /\ TIdle /\ FIdle /\ MIdle /\ WIdle

SpecES == InitES /\ [][NextES]_vars

\* the EventSystem with one-shot callbacks that emit their own event
SpecESReemit == InitES /\ [][NextESReemit]_vars

\* the event methods of a Template component
SpecTemplateEvents == InitES /\ [][NextTemplateEvents]_vars

InitT == TInit /\ EMIdle /\ ESInit /\ FIdle /\ MIdle /\ WIdle

SpecT == InitT /\ [][NextT]_vars

InitF == FInit /\ EMIdle /\ ESInit /\ TIdle /\ MIdle /\ WIdle

\* the ElementManager under the other options and hooks
InitEMOptions == EMInitOptions /\ ESInit /\ TIdle /\ FIdle /\ MIdle /\ WIdle

SpecEMOptions == InitEMOptions /\ [][NextEM]_vars

\* the ElementManager with handlers that re-enter render
InitEMReentrant == InitEM /\ options.primaryKey = "id"

SpecEMReentrant == InitEMReentrant /\ [][NextEMReentrant]_vars

SpecF == InitF /\ [][NextF]_vars

InitM == MInit /\ EMIdle /\ ESInit /\ TIdle /\ FIdle /\ WIdle

SpecM == InitM /\ [][NextM]_vars

InitW == WInit /\ EMIdle /\ ESInit /\ TIdle /\ FIdle /\ MIdle

SpecW == InitW /\ [][NextW]_vars

TypeOKEM ==
  /\ created \in 0..MaxClones
  /\ TrackedEls(elements) \subseteq 1..created

(***************************************************************************)
(* Properties of the ElementManager, checked under SpecEM                  *)
(***************************************************************************)
Shapes == {"array", "map", "object"}

\* the relative order of elements a and b among the children listed in w
Before(w, a, b) == IndexOf(w, a) < IndexOf(w, b)

\* C1: referential stability.  If key k is present in two consecutive
\* render snapshots, the element tracked for k after the second render is
\* the one tracked after the first, it has not moved among the wrapper's
\* children, and it shows the second snapshot's entry.
C1_ReferentialStability ==
  [][(last.op = "render" /\ last'.op = "render"
        /\ last.type \in Shapes /\ last'.type \in Shapes)
      => \A k \in last.keys \cap last'.keys :
           /\ ElementsGet(elements', k) # NoElement
           /\ ElementsGet(elements', k) = ElementsGet(elements, k)
           /\ elementData'[ElementsGet(elements', k)].html = last'.vals[k]
           /\ \A j \in last.keys \cap last'.keys :
                 ElementsGet(elements', j) # NoElement
                 => (Before(wrapper', ElementsGet(elements', k), ElementsGet(elements', j))
                       <=> Before(wrapper, ElementsGet(elements, k), ElementsGet(elements, j)))
     ]_vars

\* C2: with removeDeadTemplates enabled, after render of a snapshot whose
\* entries all carry a key, the tracked keys are exactly the snapshot's keys,
\* one entry per key, and no two keys share an element.
C2_TrackedEqualsSnapshot ==
  (last.op = "render" /\ options.removeDeadTemplates
     /\ last.type \in Shapes /\ last.allKeyed)
  => /\ TrackedKeys(elements) = last.keys
     /\ Cardinality(TrackedKeys(elements)) = Len(elements)
     /\ Cardinality(TrackedEls(elements)) = Len(elements)

\* C3: dead-entry sweep.  With removeDeadTemplates enabled, render removes
\* (detaches and untracks) every tracked pair whose key is absent from the
\* snapshot and keeps every pair whose key is present.
C3_DeadEntrySweep ==
  [][(last'.op = "render" /\ options.removeDeadTemplates /\ last'.type \in Shapes)
      => \A i \in 1..Len(elements) :
           IF elements[i].key \in last'.keys
           THEN /\ ElementsGet(elements', elements[i].key) = elements[i].el
                /\ elements[i].el \in Range(wrapper')
           ELSE /\ elements[i].key \notin TrackedKeys(elements')
                /\ elements[i].el \notin Range(wrapper')
     ]_vars

\* C4: with options.primaryKey = p, an array is keyed by entry[p] in every
\* step of render, the sweep included, so every entry of the rendered array
\* is still tracked when render returns.
C4_PrimaryKeyOption ==
  (last.op = "render" /\ last.type = "array" /\ last.allKeyed)
  => last.keys \subseteq TrackedKeys(elements)

\* C5: an array entry lacking the primary key is skipped alone: every other
\* entry of that array, those after it included, is created or updated by
\* the same render call.
C5_SkipFaultyEntryOnly ==
  (last.op = "render" /\ last.type = "array" /\ ~last.allKeyed)
  => \A k \in last.keys :
       /\ ElementsGet(elements, k) # NoElement
       /\ elementData[ElementsGet(elements, k)].html = last.vals[k]

\* C6: the sweep runs after all entries were processed, so rendering a
\* snapshot with the same key set (in any order) as the previous one
\* creates no element, removes none and leaves the child order as it was.
C6_SameKeySetNoChurn ==
  [][(last.op = "render" /\ last'.op = "render"
        /\ last.type \in Shapes /\ last'.type \in Shapes
        /\ last.keys = last'.keys)
      => /\ created' = created
         /\ elements' = elements
         /\ wrapper' = wrapper
     ]_vars

\* C7: renderSingle(id, obj) is render of the one-entry object {id: obj}.
\* With removeDeadTemplates enabled, id is afterwards the only tracked key
\* and every other element is detached; with it disabled, every tracked key
\* keeps its element and place, and id is appended last or updated in place.
C7_RenderSingle ==
  [][last'.op = "renderSingle"
      => \E id \in Keys, obj \in PlainEntries :
           LET old == ElementsGet(elements, id)
               now == ElementsGet(elements', id)
           IN
           /\ last'.keys = {id}
           /\ [elements |-> elements', wrapper |-> wrapper',
               elementData |-> elementData', created |-> created']
                = Render(Cur, options, ObjectOf(<<[k |-> id, e |-> obj]>>)).S
           /\ now # NoElement
           /\ elementData'[now].html = obj.name
           /\ old # NoElement => now = old
           /\ IF options.removeDeadTemplates
              THEN /\ TrackedKeys(elements') = {id}
                   /\ wrapper' = <<now>>
                   /\ \A el \in TrackedEls(elements) \ {old} : el \notin Range(wrapper')
              ELSE /\ SubSeq(elements', 1, Len(elements)) = elements
                   /\ SubSeq(wrapper', 1, Len(wrapper)) = wrapper
                   /\ IF old = NoElement
                      THEN /\ elements' = Append(elements, [key |-> id, el |-> now])
                           /\ wrapper' = Append(wrapper, now)
                      ELSE /\ elements' = elements
                           /\ wrapper' = wrapper
     ]_vars

\* C7 witness: a renderSingle on a manager with removeDeadTemplates enabled
\* has just swept other elements away and left only its own key.
C7_Witness ==
  /\ last.op = "renderSingle"
  /\ options.removeDeadTemplates
  /\ last.removed > 0
  /\ Len(elements) = 1

C9_RenderNeverThrows ==
  last.op = "render" => ~last.threw

(***************************************************************************)
(* Properties of the EventSystem, checked under SpecES                     *)
(***************************************************************************)
\* how many times x occurs in sequence s
Count(s, x) == Cardinality({i \in 1..Len(s) : s[i] = x})

\* registrations of handler h at node path and at its descendant namespaces
RegisteredBelow(ev, path, h) ==
  LET RECURSIVE Sum(_)
      Sum(P) == IF P = {} THEN 0
                ELSE LET q == CHOOSE q \in P : TRUE
                     IN Count(ev[q].handlers, h) + Sum(P \ {q})
  IN Sum({q \in DOMAIN ev : IsPrefix(path, q)})

\* C10: namespace cascade.  emit(p) invokes exactly the handlers registered
\* at node p and at every descendant namespace of p, once per registration,
\* and no handler registered only at an ancestor or a sibling of p.
C10_NamespaceCascade ==
  [][lastEmit'.op = "emit"
      => \A h \in Handlers :
           Count(lastEmit'.log, h) = RegisteredBelow(events, lastEmit'.path, h)
    ]_vars

\* the nodes of the registry at path and below it
Subtree(ev, path) == {q \in DOMAIN ev : IsPrefix(path, q)}

\* the nodes one(event, ...) created for the event name path
OneShotsOf(ev, path) ==
  {q \in DOMAIN ev : IsOneShot(q) /\ Prefix(q, Len(q) - 1) = path}

\* C11: off-isolation.  off("a.b") removes the handlers at a.b and below and
\* no other: the handlers registered on "a" itself and on the sibling
\* namespaces stay registered, and a following emit("a") invokes each of them.
C11_OffIsolation ==
  [][(lastEmit'.op = "off" /\ lastEmit'.all /\ Len(lastEmit'.path) = 2)
      => LET p == lastEmit'.path
             parent == Prefix(p, 1)
             kept == (DOMAIN events) \ Subtree(events, p)
         IN /\ Subtree(events', p) = {}
            /\ \A q \in kept :
                 q \in DOMAIN events' /\ events'[q].handlers = events[q].handlers
            /\ \A h \in Handlers :
                 Count(Emit(events', parent).log, h)
                   = RegisteredBelow(events, parent, h) - RegisteredBelow(events, p, h)
    ]_vars

\* C12: one-shot.  The first emit(event) after one(event, cb) invokes cb and
\* unregisters it, so that no later emit invokes it again, and the handler
\* count of event drops by one for each one-shot callback invoked.
C12_OneShot ==
  [][(lastEmit'.op = "emit" /\ OneShotsOf(events, lastEmit'.path) # {})
      => LET p == lastEmit'.path IN
         /\ \A q \in OneShotsOf(events, p) :
              /\ Count(lastEmit'.log, events[q].handlers[1]) >= 1
              /\ q \notin DOMAIN events'
         /\ GetHandlersCount(events', p)
              = GetHandlersCount(events, p)
                  - Cardinality({q \in Subtree(events, p) : IsOneShot(q)})
    ]_vars

\* C13: emit(path) and off(path, flag) on a path that was never registered
\* throw nothing, invoke no handler and leave the registry as it was.
C13_UnregisteredNoOp ==
  [][(lastEmit'.op \in {"emit", "off"} /\ lastEmit'.path \notin DOMAIN events)
      => /\ ~lastEmit'.threw
         /\ lastEmit'.log = <<>>
         /\ events' = events
    ]_vars

\* C14: handler fault isolation.  When a handler registered at the emitted
\* node or below it throws, every handler at and below the node is still
\* invoked for that emit and the exception does not reach emit's caller.
C14_HandlerFaultIsolation ==
  [][(lastEmit'.op = "emit" /\ lastEmit'.path \in DOMAIN events
        /\ \E h \in Throwing : RegisteredBelow(events, lastEmit'.path, h) > 0)
      => /\ ~lastEmit'.threw
         /\ \A h \in Handlers :
              Count(lastEmit'.log, h) = RegisteredBelow(events, lastEmit'.path, h)
    ]_vars

RECURSIVE OwnFirst(_, _, _)
\* the handlers at node and below it, the node's own handlers first, then
\* those of its child namespaces ks in the order on() created them
OwnFirst(ev, node, ks) ==
  IF ks = <<>> THEN <<>>
  ELSE LET k == Head(ks)
           child == Append(node, k)
       IN (IF k = HandlersKey THEN <<>>
           ELSE ev[child].handlers \o OwnFirst(ev, child, ev[child].keys))
          \o OwnFirst(ev, node, Tail(ks))

\* C15: emit order.  emit(p) invokes p's own handlers, in registration
\* order, before any handler of p's child namespaces, and the child
\* namespaces in the order they were first registered, whether on(p, ...)
\* came before or after on() for a child path.
C15_EmitOrder ==
  [][(lastEmit'.op = "emit" /\ lastEmit'.path \in DOMAIN events)
      => LET p == lastEmit'.path
         IN IsPrefix(lastEmit'.log,
                     events[p].handlers \o OwnFirst(events, p, events[p].keys))
    ]_vars

\* C16: getHandlersCount(event) is, for every single- or multi-segment
\* path, the number of handlers registered at that node and at all its
\* descendants, every on() call counted, and 0 for an unregistered path.
C16_HandlersCount ==
  \A p \in Paths :
    GetHandlersCount(events, p) = HandlerSum(events, Subtree(events, p))

\* C17: off(event, false) deletes the terminal node's own handler list only:
\* the handlers of its child namespaces stay registered and a following
\* emit(event) invokes them, and the node goes only when it has neither
\* handlers nor children left; off(event, true) removes the node with all
\* its nested namespaces.
C17_OffOwnHandlersOnly ==
  [][(lastEmit'.op = "off" /\ lastEmit'.path \in DOMAIN events)
      => LET p == lastEmit'.path
             below == Subtree(events, p) \ {p}
         IN IF lastEmit'.all
            THEN Subtree(events', p) = {}
            ELSE /\ \A q \in below :
                      q \in DOMAIN events' /\ events'[q] = events[q]
                 /\ p \in DOMAIN events' <=> below # {}
                 /\ p \in DOMAIN events' => events'[p].handlers = <<>>
                 /\ \A h \in Handlers :
                      Count(Emit(events', p).log, h)
                        = RegisteredBelow(events, p, h) - Count(events[p].handlers, h)
    ]_vars

\* C18: an off(event) made before the first invocation does not remove a
\* one-shot handler registered with one(event, cb): it is still registered
\* and a following emit(event) invokes cb.
C18_OneShotSurvivesOff ==
  [][(lastEmit'.op = "off" /\ lastEmit'.all)
      => \A q \in OneShotsOf(events, lastEmit'.path) :
           /\ q \in DOMAIN events'
           /\ Count(Emit(events', lastEmit'.path).log, events[q].handlers[1]) >= 1
    ]_vars

\* C37: a one-shot callback is unregistered after its first invocation
\* even when that invocation throws, so that no later emit invokes it: the
\* node one() made for a throwing callback that an emit has invoked is gone
\* after the emit.
C37_OneShotThrowUnregistered ==
  [][lastEmit'.op = "emit"
      => \A q \in Subtree(events, lastEmit'.path) :
           LET cb == events[q].handlers[1] IN
           (/\ IsOneShot(q)
            /\ cb \in Throwing
            /\ Count(lastEmit'.log, cb) >= 1
            /\ \A r \in Subtree(events, lastEmit'.path) \ {q} :
                 Count(events[r].handlers, cb) = 0)
             => q \notin DOMAIN events'
    ]_vars

(***************************************************************************)
(* Properties of one-shot callbacks that emit, checked under SpecESReemit  *)
(***************************************************************************)
\* C36: a one-shot callback is invoked at most once even when it calls
\* emit(event) itself: an emit invokes a callback no more often than
\* one(event, cb) registered it at the emitted node and below.
C36_OneShotReentrantOnce ==
  [][lastEmit'.op = "emit"
      => \A cb \in Reemitting :
           Count(lastEmit'.log, cb)
             <= Cardinality({q \in Subtree(events, lastEmit'.path) :
                               IsOneShot(q) /\ events[q].handlers = <<cb>>})
    ]_vars

(***************************************************************************)
(* Properties of the event methods of a Template, checked under            *)
(* SpecTemplateEvents                                                      *)
(***************************************************************************)
\* C31: on a Template component off(event) and one(event, cb) complete
\* without throwing; after off(event) no handler is registered for event,
\* after one(event, cb) a one-shot registration of event exists.
C31_TemplateOneOff ==
  /\ lastEmit.op \in {"one", "off"} => ~lastEmit.threw
  /\ (lastEmit.op = "off" /\ lastEmit.all) => lastEmit.path \notin DOMAIN events
  /\ lastEmit.op = "one" => OneShotsOf(events, lastEmit.path) # {}

(***************************************************************************)
(* Properties of the Template, checked under SpecT                         *)
(***************************************************************************)
\* C19: after render(data), cachedData is a deep copy of the raw input: it
\* equals data as it was passed and shares no nested object with data or
\* renderData, whatever the processRenderData hook and the caller change
\* afterwards.
C19_CachedDataDeepCopy ==
  lastT.rendered
  => /\ DeepValue(theap, "cached") = lastT.passed
     /\ Reach(theap, "cached") \cap (Reach(theap, "data") \cup Reach(theap, "render")) = {}

\* C20: rendering a value v to the checkbox sets its checked state from the
\* truthiness of v: checked if v is truthy, unchecked if v is falsy,
\* whatever its state before.
C20_CheckboxFromTruthiness ==
  (lastT.op = "render" /\ ~lastT.threw /\ "done" \in DOMAIN theap["render"])
  => dom["done"].checked = Truthy(theap["render"]["done"])

\* the value render hands to the element named k, when renderData holds k
Rendered(h, k) == h["render"][k]

\* C21: rendering v to the radio input checks it only when the radio's own
\* value attribute equals v; a radio whose value attribute differs from v is
\* not checked by that render.
C21_RadioCheckedOnlyOnMatch ==
  [][(lastT'.op = "render" /\ "color" \in DOMAIN theap'["render"])
      => LET v == Rendered(theap', "color") IN
         /\ (dom'["color"].checked /\ ~dom["color"].checked)
              => Str(dom["color"].value) = v
         /\ Str(dom["color"].value) # v
              => dom'["color"].checked = dom["color"].checked
    ]_vars

\* C21 witness: a render has just checked the radio, whose value attribute
\* is the rendered value.
C21_Witness ==
  /\ lastT.op = "render"
  /\ "color" \in DOMAIN theap["render"]
  /\ dom["color"].checked
  /\ Str(dom["color"].value) = Rendered(theap, "color")

\* C22: rendering v to an input that is neither checkbox nor radio, an
\* input without a type attribute included, or to a select sets its value
\* to v; rendering v to any other element sets its content to v.
C22_ValueOrContent ==
  (lastT.op = "render" /\ ~lastT.threw)
  => /\ \A k \in {"nick", "title", "status"} \cap DOMAIN theap["render"] :
          dom[k].value = ToStr(Rendered(theap, k))
     /\ "user" \in DOMAIN theap["render"]
          => dom["user.name"].innerHTML = ToStr(theap["nested"]["name"])

\* C23: binding miss.  A flattened key that names no registered element
\* causes no error and changes nothing; the registered elements whose names
\* are not among the flattened keys keep their value, content and checked
\* state.
C23_BindingMiss ==
  [][lastT'.op = "render"
      => LET keys == FlatKeys(Flatten(theap', "render")) IN
         /\ \A k \in (DOMAIN dom) \ keys : dom'[k] = dom[k]
         /\ keys \cap DOMAIN dom = {} => (~lastT'.threw /\ dom' = dom)
    ]_vars

\* C23 witness: a render of data whose only key, "extra", names no element
\* has left the checkbox checked as an earlier render set it.
C23_Witness ==
  /\ lastT.op = "render"
  /\ DOMAIN theap["render"] = {"extra"}
  /\ dom["done"].checked
  /\ ~lastT.threw

\* C24: the mutation observer observes only while a render call is active:
\* whenever no render is in progress, before the first render and after
\* any render has ended, however it ended, the observer is disconnected.
C24_ObserverDisconnected ==
  observer = "disconnected"

\* C28: component composition.  When the registered child named "child"
\* exposes render and data.child is a nested object, render delegates to the
\* child's render with that nested object, and writes no value or content
\* into the child.
C28_Composition ==
  (lastT.op = "render" /\ ~lastT.threw /\ "child" \in DOMAIN theap["render"]
     /\ Rendered(theap, "child").t = "object")
  => /\ dom["child"].rendered = Rendered(theap, "child")
     /\ dom["child"].innerHTML = ""
     /\ dom["child"].value = ""

\* C40: render never alters a radio's own value attribute: a render with a
\* value different from the attribute leaves the attribute and the checked
\* state of the radio as they were.
C40_RadioValueKept ==
  [][(lastT'.op = "render" /\ "color" \in DOMAIN theap'["render"]
        /\ Rendered(theap', "color") # Str(dom["color"].value))
      => /\ dom'["color"].value = dom["color"].value
         /\ dom'["color"].checked = dom["color"].checked
    ]_vars

(***************************************************************************)
(* Properties of Object.flatten / Object.unflatten, checked under SpecF    *)
(***************************************************************************)
\* C25: flatten/unflatten round trip.  For every nested object x without
\* array-valued leaves, empty nested objects, falsy leaves and numeric-looking
\* property names included, Object.unflatten(Object.flatten(x)) is
\* deep-equal to x.
C25_FlattenRoundTrip ==
  roundTrip.done => DeepEqual(roundTrip.back, roundTrip.h, "x")

(***************************************************************************)
(* Further properties of the ElementManager                                *)
(***************************************************************************)
\* C26: with removeDeadTemplates disabled no render or renderSingle removes
\* a tracked component: the tracked keys and the children of the wrapper
\* are kept in place (new ones are added after them), every key keeps its
\* element, and a step that drops a tracked key is removeElement or empty.
C26_NoRemovalWhenDisabled ==
  [][~options.removeDeadTemplates
      => /\ last'.op \in {"render", "renderSingle"}
              => /\ IsPrefix(elements, elements')
                 /\ IsPrefix(wrapper, wrapper')
                 /\ \A k \in TrackedKeys(elements) :
                      ElementsGet(elements', k) = ElementsGet(elements, k)
         /\ ~(TrackedKeys(elements) \subseteq TrackedKeys(elements'))
              => last'.op \in {"removeElement", "empty"}
     ]_vars

\* C26 witness: on a manager with removeDeadTemplates disabled a render has
\* just been given a snapshot lacking a tracked key, and the key's element
\* is still tracked and attached.
C26_Witness ==
  /\ ~options.removeDeadTemplates
  /\ last.op = "render"
  /\ ~last.threw
  /\ \E k \in TrackedKeys(elements) \ last.keys :
       ElementsGet(elements, k) \in Range(wrapper)

\* C27: render invokes the component's render(entry) exactly once for every
\* (key, entry) of the snapshot, in the snapshot's iteration order: the
\* renderElement calls of the last render are the snapshot's (key, entry)
\* pairs, each once and in order.
C27_RenderEachEntryOnce ==
  last.op = "render" => last.eachOnce

\* C34: wrapper/map consistency.  Between operations the tracked elements
\* are exactly the nodes attached to the wrapper, each tracked under one
\* key and attached once, and removeElement(id) for an untracked id changes
\* nothing.
C34_WrapperMapConsistency ==
  /\ TrackedEls(elements) = Range(wrapper)
  /\ Cardinality(TrackedEls(elements)) = Len(elements)
  /\ Cardinality(Range(wrapper)) = Len(wrapper)
  /\ \A id \in Keys \ TrackedKeys(elements) : RemoveElement(Cur, id) = Cur

\* C34 witness: removeElement has just detached one of several tracked
\* elements and another is still tracked and attached.
C34_Witness ==
  /\ last.op = "removeElement"
  /\ last.removed = 1
  /\ Len(elements) >= 1
  /\ TrackedEls(elements) = Range(wrapper)

(***************************************************************************)
(* Properties of re-entrant renders, checked under SpecEMReentrant         *)
(***************************************************************************)
\* C35: with removeDeadTemplates enabled, when a handler run while
\* render(S1) processes an entry calls render(S2) on the same manager, the
\* tracked key set after the outer render is the key set of S1 and every
\* tracked element is attached.
C35_ReentrantRender ==
  (last.op = "renderReentrant" /\ options.removeDeadTemplates /\ ~last.threw)
    => /\ TrackedKeys(elements) = last.keys
       /\ TrackedEls(elements) \subseteq Range(wrapper)

(***************************************************************************)
(* Properties of the ElementManager under the other options and hooks,     *)
(* checked under SpecEMOptions                                             *)
(***************************************************************************)
\* C29: render renders from the result of processRenderData: the value bound
\* to the element of every key the call created or updated is the one the
\* hook's result holds for that key.
C29_RendersHookResult ==
  (last.op = "render" /\ ~last.threw)
    => \A k \in last.keys \cap TrackedKeys(elements) :
         elementData[ElementsGet(elements, k)].html
           = (IF emHook = "default" THEN last.vals[k] ELSE "B")

\* C30: a manager constructed with maxElements = m > 0 never tracks more
\* than m elements, nor has more than m children in its wrapper.
C30_MaxElements ==
  options.maxElements > 0
    => /\ Len(elements) <= options.maxElements
       /\ Len(wrapper) <= options.maxElements

(***************************************************************************)
(* Properties of Message, checked under SpecM                              *)
(***************************************************************************)
\* C32: a Message constructed with options.status = s has status s, for s
\* error, ok or done, and status ok when none is given; afterwards status
\* is what the last setter or deserialize made it, and isDone() is true
\* exactly when status is done.
C32_MessageStatus ==
  /\ lastM.op = "new"
       => message.status = (IF "status" \in DOMAIN lastM.options
                            THEN lastM.options["status"]
                            ELSE MessageStatus.ok)
  /\ IsDone(message) <=> message.status = MessageStatus.done

(***************************************************************************)
(* Properties of the WebSocketClient, checked under SpecW                  *)
(***************************************************************************)
\* C33: with maxReconnectAttempts = m > 0 the client makes at most m
\* connect() attempts from reconnect() without a successful 'open' in
\* between, whatever the timing of the sockets' error and close events and
\* of the ticks, and once reconnect() has bailed the timer stays stopped.
C33_ReconnectBails ==
  client.maxReconnectAttempts > 0
    => /\ lastW.attempts <= client.maxReconnectAttempts
       /\ lastW.bailed => client.reconnectInterval = 0 /\ timers = {}

\* C38: an event delivered by a socket that connect() has replaced does not
\* affect the client: its fields and its timers are as before the event.
C38_StaleSocketEvents ==
  [][(lastW'.event \in {"open", "error", "close"}
        /\ client.ws # 0 /\ lastW'.socket # client.ws)
      => client' = client /\ timers' = timers
    ]_vars

\* C39: at most one reconnect timer runs at a time and reconnectInterval is
\* non-null exactly when one runs (it is that timer); a timer is started
\* only by an error or an unclean close while autoReconnect is true.
C39_OneReconnectTimer ==
  /\ Cardinality(timers) <= 1
  /\ client.reconnectInterval # 0 <=> timers # {}
  /\ timers \subseteq {client.reconnectInterval}
  /\ lastW.started
       => /\ client.autoReconnect
          /\ lastW.event \in {"error", "close"}
          /\ lastW.event = "close" => ~lastW.wasClean
  /\ ~client.autoReconnect => timers = {}

\* C39 witness: an unclean close has just started the reconnect timer, after
\* an earlier timer had been stopped by reconnect().
C39_Witness ==
  /\ lastW.event = "close"
  /\ lastW.started
  /\ lastW.bailed
  /\ timers # {}
====
